---------------------------- MODULE Spec2Model ----------------------------
(***************************************************************************)
(* Reward-modulated plasticity simulators of plasticity/behavior:          *)
(*   model.py    multi-layer network, simulate (scan), evaluate            *)
(*   network.py  single-layer network, in-silico scan, fly experiment      *)
(*                                                                         *)
(* Floating point values are modelled by integers plus one NaN value with  *)
(* IEEE propagation (any sum or product with a NaN operand is NaN, also    *)
(* NaN * 0).  Arrays are sequences, matrices are sequences of rows, a      *)
(* layer is the pair <<w, b>> and params is a sequence of layers.          *)
(***************************************************************************)
EXTENDS Integers, Sequences, FiniteSets, TLC

(***************************************************************************)
(* Bounds of the model.                                                    *)
(***************************************************************************)
MaxDim == 2        \* widest layer of the update specification
MaxLayers == 3     \* deepest network (number of (w, b) pairs)
MaxTrials == 2     \* trials of one scan
MaxLen == 2        \* padded window: timesteps per trial
MaxKey == 1        \* seeds 0..MaxKey of initialize_params
MaxFlyTrials == 4  \* trials of one fly experiment, over all blocks

(***************************************************************************)
(* Floating point arithmetic with NaN.                                     *)
(***************************************************************************)
NaN == -99

FAdd(a, b) == IF a = NaN \/ b = NaN THEN NaN ELSE a + b

FSub(a, b) == IF a = NaN \/ b = NaN THEN NaN ELSE a - b

FMul(a, b) == IF a = NaN \/ b = NaN THEN NaN ELSE a * b

\* an array built elementwise, as a sequence
Arr(f) == f \o <<>>

RECURSIVE FSumTo(_, _)
FSumTo(s, k) == IF k = 0 THEN 0 ELSE FAdd(FSumTo(s, k - 1), s[k])

FSum(s) == FSumTo(s, Len(s))

\* jax.nn.sigmoid on the integer grid: rounded to the nearest integer
\* (sigmoid(z) > 1/2 exactly when z > 0), NaN stays NaN.
sigmoid(z) == IF z = NaN THEN NaN ELSE IF z > 0 THEN 1 ELSE 0

Rows(W) == Len(W)

Cols(W) == Len(W[1])

Shape(W) == <<Rows(W), Cols(W)>>

Column(W, j) == Arr([i \in 1..Rows(W) |-> W[i][j]])

\* x @ W
VecMat(x, W) ==
    Arr([j \in 1..Cols(W) |-> FSum(Arr([i \in 1..Rows(W) |-> FMul(x[i], W[i][j])]))])

VecAdd(a, b) == Arr([j \in 1..Len(a) |-> FAdd(a[j], b[j])])

MatAdd(A, B) ==
    Arr([i \in 1..Rows(A) |-> Arr([j \in 1..Cols(A) |-> FAdd(A[i][j], B[i][j])])])

\* array + python scalar (broadcast)
MatAddScalar(A, c) ==
    Arr([i \in 1..Rows(A) |-> Arr([j \in 1..Cols(A) |-> FAdd(A[i][j], c)])])

VecAddScalar(a, c) == Arr([j \in 1..Len(a) |-> FAdd(a[j], c)])

Zeros(n) == Arr([j \in 1..n |-> 0])

Min(a, b) == IF a < b THEN a ELSE b

(***************************************************************************)
(* The plasticity rule, supplied by the caller: a scalar function of the   *)
(* presynaptic activation, the reward term, the weight and the             *)
(* coefficients.  coeffs = <<c_xr, c_w, c_xw>>:                            *)
(*    delta = c_xr * x * r  +  c_w * w  +  c_xw * x * w                    *)
(***************************************************************************)
plasticity_func(x, r, w, coeffs) ==
    IF x = NaN \/ r = NaN \/ w = NaN THEN NaN
    ELSE coeffs[1] * x * r + coeffs[2] * w + coeffs[3] * x * w

ZeroCoeffs == <<0, 0, 0>>

HebbCoeffs == <<1, 0, 0>>

DecayCoeffs == <<1, -1, 0>>

CoeffSet == {ZeroCoeffs, HebbCoeffs, DecayCoeffs, <<0, 0, 1>>}

\* the shape of what the supplied rule returns for one synapse: () for a
\* scalar, (2,) for a rule that returns a vector
RuleShapes == {<<>>, <<2>>}

(***************************************************************************)
(* Shapes under jax.vmap, and the shape assertions of both updates.        *)
(***************************************************************************)
\* the output of a vmap over n elements: the mapped axis is inserted at
\* position out_axis (from 0) of the shape of one result
vmap_shape(n, result_shape, out_axis) ==
    SubSeq(result_shape, 1, out_axis) \o <<n>>
        \o SubSeq(result_shape, out_axis + 1, Len(result_shape))

\* out_axes=0 in the outer vmap
weight_update_dw_shape_out_axes0(w_shape, rule_shape) ==
    vmap_shape(w_shape[2], vmap_shape(w_shape[1], rule_shape, 0), 0)

\* network.py weight_update: dw.shape, vfun over the m inputs of a column,
\* then over the n columns with out_axes=1
weight_update_dw_shape(w_shape, rule_shape) ==
    vmap_shape(w_shape[2], vmap_shape(w_shape[1], rule_shape, 0), 1)

\* model.py update_params: dw.shape, vmap_inputs over the n weights of a row,
\* then vmap_synapses over the m rows
update_params_dw_shape(w_shape, rule_shape) ==
    vmap_shape(w_shape[1], vmap_shape(w_shape[2], rule_shape, 0), 0)

\* shapes that numpy broadcasting can combine: aligned from the right, each
\* pair of dimensions equal or one of them 1
broadcastable(a_shape, b_shape) ==
    \A d \in 1..Min(Len(a_shape), Len(b_shape)) :
      LET a == a_shape[Len(a_shape) + 1 - d]
          b == b_shape[Len(b_shape) + 1 - d]
      IN  a = b \/ a = 1 \/ b = 1

\* without the assertion, the broadcasting of the addition decides
same_shape_or_broadcast(dw_shape, w_shape) == broadcastable(dw_shape, w_shape)

\* assert dw.shape == w.shape
same_shape(dw_shape, w_shape) == dw_shape = w_shape

\* network.py weight_update: assert dw.shape == weights.shape
weight_update_assertion(weights, rule_shape) ==
    LET w_shape == <<Len(weights), Len(weights[1])>>
    IN  same_shape(weight_update_dw_shape(w_shape, rule_shape), w_shape)

\* model.py update_params: assert dw.shape == w.shape and db.shape == b.shape,
\* with db = jnp.zeros_like(b)
update_params_assertion(params, rule_shape) ==
    LET w == params[1][1]
        b_shape == <<Len(params[1][2])>>
        w_shape == <<Len(w), Len(w[1])>>
    IN  /\ same_shape(update_params_dw_shape(w_shape, rule_shape), w_shape)
        /\ same_shape(b_shape, b_shape)

(***************************************************************************)
(* network.py: weight_update                                               *)
(***************************************************************************)
\* jnp.meshgrid(reshape(x, (m,)), ones(n), indexing="ij")[0]
meshgrid_ij(x, m, n) == Arr([i \in 1..m |-> Arr([j \in 1..n |-> x[i]])])

\* vmap(plasticity_func, in_axes=(0, None, 0, None))
vfun(xs_col, reward_term, w_col, coeffs) ==
    Arr([i \in 1..Len(w_col) |-> plasticity_func(xs_col[i], reward_term, w_col[i], coeffs)])

\* out_axes=0 instead of out_axes=1: the per-column results stacked as rows
StackColumns_as_rows(cols, m, n) == Arr([j \in 1..n |-> cols[j]])

\* out_axes=1: the per-column results are stacked as columns
StackColumns(cols, m, n) == Arr([i \in 1..m |-> Arr([j \in 1..n |-> cols[j][i]])])

weight_update(x, weights, coeffs, reward, expected_reward) ==
    LET reward_term == FSub(reward, expected_reward)
        m == Rows(weights)
        n == Cols(weights)
        in_grid == meshgrid_ij(x, m, n)
        cols == Arr([j \in 1..n |->
                   vfun(Column(in_grid, j), reward_term, Column(weights, j), coeffs)])
    IN  StackColumns(cols, m, n)

(***************************************************************************)
(* model.py: update_params                                                 *)
(***************************************************************************)
\* jax.vmap(plasticity_func, in_axes=(None, None, 0, None))
vmap_inputs(a, reward_term, w_row, coeffs) ==
    Arr([j \in 1..Len(w_row) |-> plasticity_func(a, reward_term, w_row[j], coeffs)])

\* jax.vmap(vmap_inputs, in_axes=(0, None, 0, None))
vmap_synapses(activation, reward_term, w, coeffs) ==
    Arr([i \in 1..Rows(w) |-> vmap_inputs(activation[i], reward_term, w[i], coeffs)])

\* delta_params: the layer-0 arrays, then at most one (0.0, 0.0) pair
delta_params(params, activations, coeffs, reward, expected_reward) ==
    LET reward_term == FSub(reward, expected_reward)
        w == params[1][1]
        b == params[1][2]
        dw == vmap_synapses(activations[1], reward_term, w, coeffs)
        db == Zeros(Len(b))
        first == <<[scalar |-> FALSE, dw |-> dw, db |-> db]>>
    IN  IF Len(params) > Len(first)
        THEN Append(first, [scalar |-> TRUE, dw |-> 0, db |-> 0])
        ELSE first

AddDelta(layer, d) ==
    IF d.scalar
    THEN <<MatAddScalar(layer[1], d.dw), VecAddScalar(layer[2], d.db)>>
    ELSE <<MatAdd(layer[1], d.dw), VecAdd(layer[2], d.db)>>

\* the deltas are computed and never added
update_params_unchanged(params, activations, coeffs, reward, expected_reward) == params

\* [(w + dw, b + db) for (w, b), (dw, db) in zip(params, delta_params)]:
\* zip stops at the shorter of the two lists
update_params(params, activations, coeffs, reward, expected_reward) ==
    LET deltas == delta_params(params, activations, coeffs, reward, expected_reward)
    IN  Arr([l \in 1..Min(Len(params), Len(deltas)) |-> AddDelta(params[l], deltas[l])])

(***************************************************************************)
(* model.py: network_forward, initialize_params                            *)
(***************************************************************************)
RECURSIVE HiddenActivations(_, _, _)
\* the loop over params[:-1]: the activations of layers 1..l
HiddenActivations(params, inputs, l) ==
    IF l = 0 THEN <<inputs>>
    ELSE LET before == HiddenActivations(params, inputs, l - 1)
             activation == before[Len(before)]
             z == VecAdd(VecMat(activation, params[l][1]), params[l][2])
         IN  Append(before, Arr([j \in 1..Len(z) |-> sigmoid(z[j])]))

network_forward(params, inputs) ==
    LET activations == HiddenActivations(params, inputs, Len(params) - 1)
        activation == activations[Len(activations)]
        final == params[Len(params)]
        logits == VecAdd(VecMat(activation, final[1]), final[2])
    IN  Append(activations, logits)

\* utils.generate_gaussian(key, (m, n), scale): a function of key and shape
generate_gaussian(key, m, n) ==
    Arr([i \in 1..m |-> Arr([j \in 1..n |-> ((key + i + 2 * j) % 3) - 1])])

initialize_params(key, layer_sizes) ==
    Arr([l \in 1..(Len(layer_sizes) - 1) |->
        <<generate_gaussian(key, layer_sizes[l], layer_sizes[l + 1]),
          Zeros(layer_sizes[l + 1])>>])

(***************************************************************************)
(* model.py: network_step, and the step of simulate's scan                 *)
(***************************************************************************)
\* jax.vmap(network_forward, in_axes=(None, 0)): per layer, one row per timestep
vmap_network_forward(params, trial_inputs) ==
    LET per_timestep ==
            Arr([t \in 1..Len(trial_inputs) |-> network_forward(params, trial_inputs[t])])
    IN  Arr([l \in 1..(Len(params) + 1) |->
            Arr([t \in 1..Len(trial_inputs) |-> per_timestep[t][l]])])

\* a[-1] instead of a[trial_length - 1]: the last position of the window
last_odor_activations_of_window(activations, trial_length) ==
    Arr([l \in 1..Len(activations) |-> activations[l][Len(activations[l])]])

\* [a[trial_length - 1] for a in activations]  (timesteps are numbered from 1 here)
last_odor_activations(activations, trial_length) ==
    Arr([l \in 1..Len(activations) |-> activations[l][trial_length]])

\* the parameters recorded are those the step was given
model_network_step_records_old(trial_inputs, params, coeffs, reward, expected_reward, trial_length) ==
    LET activations == vmap_network_forward(params, trial_inputs)
        last == last_odor_activations(activations, trial_length)
        new_params == update_params(params, last, coeffs, reward, expected_reward)
    IN  [carry |-> new_params, out |-> <<params, activations>>]

\* the forward pass is made after the update, with the new parameters
model_network_step_forward_after_update(trial_inputs, params, coeffs, reward, expected_reward, trial_length) ==
    LET activations == vmap_network_forward(params, trial_inputs)
        last == last_odor_activations(activations, trial_length)
        new_params == update_params(params, last, coeffs, reward, expected_reward)
    IN  [carry |-> new_params,
         out |-> <<new_params, vmap_network_forward(new_params, trial_inputs)>>]

\* returns params, (params, activations)
model_network_step(trial_inputs, params, coeffs, reward, expected_reward, trial_length) ==
    LET activations == vmap_network_forward(params, trial_inputs)
        last == last_odor_activations(activations, trial_length)
        new_params == update_params(params, last, coeffs, reward, expected_reward)
    IN  [carry |-> new_params, out |-> <<new_params, activations>>]

\* jax.lax.scan requires the carry returned by step to have the structure of
\* the carry it was given
CarryKeepsStructure(params) ==
    Len(update_params(params, <<Zeros(Rows(params[1][1]))>>, ZeroCoeffs, 0, 0)) = Len(params)

(***************************************************************************)
(* network.py: network_step                                                *)
(***************************************************************************)
\* vmap(lambda weights, x: jnp.dot(x, weights), (None, 0))
vmapped_forward(weights, input) ==
    Arr([t \in 1..Len(input) |-> VecMat(input[t], weights)])

\* input[-1] instead of input[trial_length - 1]
decision_input_of_window(input, trial_length) == input[Len(input)]

\* x = input[trial_length - 1]
decision_input(input, trial_length) == input[trial_length]

\* the logits are computed after the update, with the new weights
net_network_step_forward_after_update(input, weights, coeffs, reward, expected_reward, trial_length) ==
    LET x == decision_input(input, trial_length)
        dw == weight_update(x, weights, coeffs, reward, expected_reward)
    IN  [carry |-> MatAdd(weights, dw), out |-> vmapped_forward(MatAdd(weights, dw), input)]

\* returns weights, logits
net_network_step(input, weights, coeffs, reward, expected_reward, trial_length) ==
    LET logits_t == vmapped_forward(weights, input)
        x == decision_input(input, trial_length)
        dw == weight_update(x, weights, coeffs, reward, expected_reward)
    IN  [carry |-> MatAdd(weights, dw), out |-> logits_t]

(***************************************************************************)
(* State.                                                                  *)
(***************************************************************************)
VARIABLES
    u_pc,          \* update specification: "args" | "called"
    u_params,      \* argument params
    u_x,           \* argument activations[0] / x
    u_coeffs,      \* argument plasticity_coeffs
    u_rule_shape,  \* argument plasticity_func: the shape of its result
    u_reward,      \* argument reward
    u_expected,    \* argument expected_reward
    u_new_params,  \* result of update_params
    u_dw,          \* result of weight_update
    s_pc,               \* scans: "run" | "done" | "aborted"
    s_twin,             \* what run B may change: "reward" | "padding"
    s_initial_params,   \* argument of simulate; its layer 0 is initial_weights
    s_coeffs,           \* argument plasticity_coeffs of both scans
    s_rule_shape,       \* argument plasticity_func of both scans: the shape of its result
    s_xs,               \* per run: one padded window of inputs per trial
    s_rewards,          \* per run: one reward per trial
    s_expected_rewards, \* one expected reward per trial
    s_trial_lengths,    \* one true length per trial
    s_params,           \* per run: carry of simulate's scan
    s_params_trajec,    \* per run: stacked first output of simulate's step
    s_activations,      \* per run: stacked second output of simulate's step
    s_weights,          \* per run: carry of simulate_insilico_experiment's scan
    s_logits,           \* per run: stacked output of the in-silico step
    e_pc,                 \* evaluate: "loaded" | "masked" | "generated" | "done" | "aborted"
    e_params,             \* params = initialize_params(subkey, cfg)
    e_generation_coeff,   \* argument generation_coeff
    e_plasticity_coeff,   \* argument plasticity_coeff
    e_xs,                 \* xs["0"]: one padded window of inputs per trial
    e_decisions,          \* decisions["0"]: one padded row of decisions per trial
    e_rewards,            \* rewards["0"]
    e_expected_rewards,   \* expected_rewards["0"]
    e_trial_lengths,      \* trial_lengths
    e_logits_mask,        \* logits_mask
    e_logits,             \* returned logits
    e_weight_trajec,      \* returned weight_trajec
    e_model_logits,       \* returned model_logits
    e_model_weight_trajec, \* returned model_weight_trajec
    f_pc,                \* fly experiment: "experiment" | "trial" | "done"
    f_reward_ratios,     \* argument reward_ratios: per block, per odor, in percent
    f_trials_per_block,  \* argument trials_per_block
    f_moving_avg_window, \* argument moving_avg_window
    f_coeffs,            \* argument plasticity_coeffs
    f_key,               \* key
    f_weights,           \* weights, in units of 1 / len(r_history)
    f_rewards_in_arena,  \* rewards_in_arena
    f_r_history,         \* r_history, leftmost entry first
    f_done,              \* number of completed trials
    f_expected_reward,   \* simulate_fly_trial: expected_reward
    f_input_xs,          \* simulate_fly_trial: input_xs
    f_trial_odors,       \* simulate_fly_trial: trial_odors
    f_decisions,         \* simulate_fly_trial: decisions
    f_xs,                \* xs[block][trial]
    f_odors,             \* odors[block][trial]
    f_sampled_ys,        \* sampled_ys[block][trial]
    f_rewards,           \* rewards[block][trial]
    f_expected_rewards,  \* expected_rewards[block][trial]
    f_sampled_rewards,   \* history: sampled_rewards drawn before [block][trial]
    f_key_uses           \* history: the keys given to split and to the draws, in order

updVars == <<u_pc, u_params, u_x, u_coeffs, u_rule_shape, u_reward, u_expected, u_new_params, u_dw>>

scanArgs == <<s_twin, s_initial_params, s_coeffs, s_rule_shape, s_xs, s_rewards, s_expected_rewards, s_trial_lengths>>

scanVars == <<s_pc, scanArgs, s_params, s_params_trajec, s_activations, s_weights, s_logits>>

evalArgs == <<e_params, e_generation_coeff, e_plasticity_coeff, e_xs, e_decisions, e_rewards, e_expected_rewards>>

evalVars == <<e_pc, evalArgs, e_trial_lengths, e_logits_mask, e_logits, e_weight_trajec, e_model_logits, e_model_weight_trajec>>

flyArgs == <<f_reward_ratios, f_trials_per_block, f_moving_avg_window, f_coeffs>>

flyTrial == <<f_expected_reward, f_input_xs, f_trial_odors, f_decisions>>

flyRecords == <<f_xs, f_odors, f_sampled_ys, f_rewards, f_expected_rewards>>

flyVars == <<f_pc, flyArgs, f_key, f_weights, f_rewards_in_arena, f_r_history, f_done, flyTrial, flyRecords, f_sampled_rewards, f_key_uses>>

vars == <<updVars, scanVars, evalVars, flyVars>>

otherThanUpd == <<scanVars, evalVars, flyVars>>

otherThanScan == <<updVars, evalVars, flyVars>>

otherThanEval == <<updVars, scanVars, flyVars>>

otherThanFly == <<updVars, scanVars, evalVars>>

(***************************************************************************)
(* Each specification runs one part of the program; the state of the other *)
(* parts stays idle.                                                       *)
(***************************************************************************)
UpdIdle ==
    /\ u_pc = "idle"
    /\ u_params = <<>>
    /\ u_x = <<>>
    /\ u_coeffs = ZeroCoeffs
    /\ u_rule_shape = <<>>
    /\ u_reward = 0
    /\ u_expected = 0
    /\ u_new_params = <<>>
    /\ u_dw = <<>>

ScanIdle ==
    /\ s_pc = "idle"
    /\ s_twin = "none"
    /\ s_initial_params = <<>>
    /\ s_coeffs = ZeroCoeffs
    /\ s_rule_shape = <<>>
    /\ s_xs = <<>>
    /\ s_rewards = <<>>
    /\ s_expected_rewards = <<>>
    /\ s_trial_lengths = <<>>
    /\ s_params = <<>>
    /\ s_params_trajec = <<>>
    /\ s_activations = <<>>
    /\ s_weights = <<>>
    /\ s_logits = <<>>

EvalIdle ==
    /\ e_pc = "idle"
    /\ e_params = <<>>
    /\ e_generation_coeff = ZeroCoeffs
    /\ e_plasticity_coeff = ZeroCoeffs
    /\ e_xs = <<>>
    /\ e_decisions = <<>>
    /\ e_rewards = <<>>
    /\ e_expected_rewards = <<>>
    /\ e_trial_lengths = <<>>
    /\ e_logits_mask = <<>>
    /\ e_logits = <<>>
    /\ e_weight_trajec = <<>>
    /\ e_model_logits = <<>>
    /\ e_model_weight_trajec = <<>>

FlyIdle ==
    /\ f_pc = "idle"
    /\ f_reward_ratios = <<>>
    /\ f_trials_per_block = 0
    /\ f_moving_avg_window = 0
    /\ f_coeffs = ZeroCoeffs
    /\ f_key = <<>>
    /\ f_weights = <<>>
    /\ f_rewards_in_arena = <<>>
    /\ f_r_history = <<>>
    /\ f_done = 0
    /\ f_expected_reward = <<>>
    /\ f_input_xs = <<>>
    /\ f_trial_odors = <<>>
    /\ f_decisions = <<>>
    /\ f_xs = <<>>
    /\ f_odors = <<>>
    /\ f_sampled_ys = <<>>
    /\ f_rewards = <<>>
    /\ f_expected_rewards = <<>>
    /\ f_sampled_rewards = <<>>
    /\ f_key_uses = <<>>

(***************************************************************************)
(* Input sets.                                                             *)
(***************************************************************************)
RewardVals == {0, 1}

WeightVals == {0, 1}

Matrices(m, n) == [1..m -> [1..n -> WeightVals]]

Vectors(m) == [1..m -> {0, 1}]

\* layer_sizes of a network of nl layers: in_dim, hidden width 2, ..., out_dim
LayerSizes(in_dim, nl, out_dim) ==
    Arr([l \in 1..(nl + 1) |-> IF l = 1 THEN in_dim ELSE IF l = nl + 1 THEN out_dim ELSE 2])

(***************************************************************************)
(* Update specification: update_params and weight_update as functions of   *)
(* their arguments.                                                        *)
(***************************************************************************)
InitUpdate ==
    /\ ScanIdle
    /\ EvalIdle
    /\ FlyIdle
    /\ u_pc = "args"
    /\ \E nl \in 1..MaxLayers, m \in 1..MaxDim, n \in 1..MaxDim, key \in 0..MaxKey :
         \E w \in Matrices(m, IF nl = 1 THEN n ELSE 2) :
           LET sizes == LayerSizes(m, nl, n)
               rest == initialize_params(key, sizes)
           IN  u_params = [rest EXCEPT ![1] = <<w, Zeros(Len(rest[1][2]))>>]
    /\ u_x \in Vectors(Rows(u_params[1][1]))
    /\ u_coeffs \in CoeffSet
    /\ u_rule_shape \in RuleShapes
    /\ u_reward \in RewardVals
    /\ u_expected \in RewardVals
    /\ u_new_params = <<>>
    /\ u_dw = <<>>

\* update_params: the assertion on dw.shape and db.shape, then the addition
CallUpdateParams ==
    /\ u_pc \in {"args", "weight_update"}
    /\ u_new_params = <<>>
    /\ IF update_params_assertion(u_params, u_rule_shape)
       THEN /\ u_new_params' =
                 update_params(u_params, <<u_x>>, u_coeffs, u_reward, u_expected)
            /\ u_pc' = "update_params"
       ELSE /\ u_new_params' = u_new_params
            /\ u_pc' = "update_params raised AssertionError"
    /\ UNCHANGED <<u_params, u_x, u_coeffs, u_rule_shape, u_reward, u_expected, u_dw>>
    /\ UNCHANGED otherThanUpd

\* weight_update: the assertion on dw.shape, then the return of dw
CallWeightUpdate ==
    /\ u_pc \in {"args", "update_params"}
    /\ u_dw = <<>>
    /\ IF weight_update_assertion(u_params[1][1], u_rule_shape)
       THEN /\ u_dw' = weight_update(u_x, u_params[1][1], u_coeffs, u_reward, u_expected)
            /\ u_pc' = "weight_update"
       ELSE /\ u_dw' = u_dw
            /\ u_pc' = "weight_update raised AssertionError"
    /\ UNCHANGED <<u_params, u_x, u_coeffs, u_rule_shape, u_reward, u_expected, u_new_params>>
    /\ UNCHANGED otherThanUpd

NextUpdate == CallUpdateParams \/ CallWeightUpdate

SpecUpdate == InitUpdate /\ [][NextUpdate]_vars

(***************************************************************************)
(* Scan specification: simulate (model.py) and simulate_insilico_experiment*)
(* (network.py) on the same arrays.  Every scan is run twice, as run "A"   *)
(* and run "B": the arrays of B are those of A except in at most one       *)
(* trial, where either the reward or the padded inputs differ.  A trial's  *)
(* stimulus is drawn when simulate's scan reaches it.                      *)
(***************************************************************************)
Runs == {"A", "B"}

OdorInputs == {<<1, 0>>, <<0, 1>>}

OtherOdor(x) == <<x[2], x[1]>>

NaNVec == <<NaN, NaN>>

\* what a padded position of run B may hold instead of the NaN sentinel
PadAlternatives == {<<1, 0>>}

\* a padded window: the decision input at position len, the other odor before
\* it, pad after it
Window(len, x, pad) ==
    Arr([t \in 1..MaxLen |-> IF t < len THEN OtherOdor(x) ELSE IF t = len THEN x ELSE pad])

\* true lengths of the trials: a single timestep, or the whole window
TrialLengths == {1, MaxLen}

ScanCoeffSet == {ZeroCoeffs, HebbCoeffs, DecayCoeffs}

LearningCoeffSet == {HebbCoeffs, DecayCoeffs}

InitScan(twin) ==
    /\ s_pc = "run"
    /\ s_twin = twin
    /\ \E nl \in 1..MaxLayers :
         s_initial_params = initialize_params(0, LayerSizes(2, nl, 1))
    /\ s_coeffs \in ScanCoeffSet
    /\ s_rule_shape \in RuleShapes
    /\ s_xs = [r \in Runs |-> <<>>]
    /\ s_rewards = [r \in Runs |-> <<>>]
    /\ s_expected_rewards = <<>>
    /\ s_trial_lengths = <<>>
    /\ s_params = [r \in Runs |-> s_initial_params]
    /\ s_params_trajec = [r \in Runs |-> <<>>]
    /\ s_activations = [r \in Runs |-> <<>>]
    /\ s_weights = [r \in Runs |-> s_initial_params[1][1]]
    /\ s_logits = [r \in Runs |-> <<>>]

NumTrials == Len(s_trial_lengths)

SameArrays == s_xs["A"] = s_xs["B"] /\ s_rewards["A"] = s_rewards["B"]

\* element i of the scanned arrays (xs, rewards, expected_rewards, trial_lengths)
Stimulus(xs, rewards, expected_rewards, trial_lengths, i) ==
    [x |-> xs[i], reward |-> rewards[i],
     expected_reward |-> expected_rewards[i], trial_length |-> trial_lengths[i]]

\* every stacked entry aliases the object of the latest output
StackOutput_aliased(stacked, out) == Arr([i \in 1..(Len(stacked) + 1) |-> out])

\* jax.lax.scan stacks the outputs of the steps in the order of the steps
StackOutput(stacked, out) == Append(stacked, out)

\* model.py simulate: step(carry, stimulus)
step(carry, stimulus) ==
    model_network_step(stimulus.x, carry, s_coeffs, stimulus.reward,
                       stimulus.expected_reward, stimulus.trial_length)

\* network.py simulate_insilico_experiment: step(weights, stimulus)
insilico_step(carry, stimulus) ==
    net_network_step(stimulus.x, carry, s_coeffs, stimulus.reward,
                     stimulus.expected_reward, stimulus.trial_length)

\* the expected reward of trial t: nonzero once an earlier trial was rewarded
ExpectedRewardOf(rewards, t) == IF \E k \in 1..(t - 1) : rewards[k] = 1 THEN 1 ELSE 0

\* the arrays of both runs grow by one trial
DrawTrial(len, x, reward, expected_reward, padB, rewardB) ==
    /\ s_xs' = [r \in Runs |->
                  Append(s_xs[r], Window(len, x, IF r = "A" THEN NaNVec ELSE padB))]
    /\ s_rewards' = [r \in Runs |->
                  Append(s_rewards[r], IF r = "A" THEN reward ELSE rewardB)]
    /\ s_expected_rewards' = Append(s_expected_rewards, expected_reward)
    /\ s_trial_lengths' = Append(s_trial_lengths, len)

\* the rewards run B may hold where run A holds reward
TwinRewards(reward) ==
    IF s_twin = "reward" /\ SameArrays THEN RewardVals ELSE {reward}

\* what run B may hold at the padded positions of a trial of length len
TwinPads(len) ==
    IF s_twin = "padding" /\ SameArrays /\ len < MaxLen
    THEN {NaNVec} \cup PadAlternatives ELSE {NaNVec}

\* one iteration of simulate's scan, in both runs
SimulateStep ==
    /\ s_pc = "run"
    /\ update_params_assertion(s_initial_params, s_rule_shape)
    /\ weight_update_assertion(s_initial_params[1][1], s_rule_shape)
    /\ CarryKeepsStructure(s_initial_params)
    /\ Len(s_params_trajec["A"]) = Len(s_logits["A"])
    /\ NumTrials < MaxTrials
    /\ \E len \in TrialLengths, x \in OdorInputs, reward \in RewardVals :
         \E rewardB \in TwinRewards(reward), padB \in TwinPads(len) :
            DrawTrial(len, x, reward, ExpectedRewardOf(s_rewards["A"], NumTrials + 1),
                      padB, rewardB)
    /\ LET i == NumTrials + 1
           stim(r) == Stimulus(s_xs'[r], s_rewards'[r], s_expected_rewards',
                               s_trial_lengths', i)
           resA == step(s_params["A"], stim("A"))
           resB == step(s_params["B"], stim("B"))
           res == [A |-> resA, B |-> resB]
       IN  /\ s_params' = [r \in Runs |-> res[r].carry]
           /\ s_params_trajec' =
                 [r \in Runs |-> StackOutput(s_params_trajec[r], res[r].out[1])]
           /\ s_activations' =
                 [r \in Runs |-> StackOutput(s_activations[r], res[r].out[2])]
    /\ UNCHANGED <<s_pc, s_twin, s_initial_params, s_coeffs, s_rule_shape, s_weights, s_logits>>
    /\ UNCHANGED otherThanScan

\* jax.lax.scan refuses a step whose carry changes structure
SimulateAbort ==
    /\ s_pc = "run"
    /\ update_params_assertion(s_initial_params, s_rule_shape)
    /\ ~CarryKeepsStructure(s_initial_params)
    /\ s_pc' = "aborted"
    /\ UNCHANGED <<scanArgs, s_params, s_params_trajec, s_activations, s_weights, s_logits>>
    /\ UNCHANGED otherThanScan

\* the assertion of update_params fails while simulate's step is traced:
\* simulate raises before any trial
SimulateRaise ==
    /\ s_pc = "run"
    /\ ~update_params_assertion(s_initial_params, s_rule_shape)
    /\ s_pc' = "simulate raised AssertionError"
    /\ UNCHANGED <<scanArgs, s_params, s_params_trajec, s_activations, s_weights, s_logits>>
    /\ UNCHANGED otherThanScan

\* the assertion of weight_update fails while the in-silico step is traced
InsilicoRaise ==
    /\ s_pc = "run"
    /\ ~weight_update_assertion(s_initial_params[1][1], s_rule_shape)
    /\ s_pc' = "simulate_insilico_experiment raised AssertionError"
    /\ UNCHANGED <<scanArgs, s_params, s_params_trajec, s_activations, s_weights, s_logits>>
    /\ UNCHANGED otherThanScan

\* one iteration of simulate_insilico_experiment's scan, in both runs
InsilicoStep ==
    /\ s_pc = "run"
    /\ Len(s_logits["A"]) < Len(s_params_trajec["A"])
    /\ LET i == Len(s_logits["A"]) + 1
           stim(r) == Stimulus(s_xs[r], s_rewards[r], s_expected_rewards,
                               s_trial_lengths, i)
           resA == insilico_step(s_weights["A"], stim("A"))
           resB == insilico_step(s_weights["B"], stim("B"))
           res == [A |-> resA, B |-> resB]
       IN  /\ s_weights' = [r \in Runs |-> res[r].carry]
           /\ s_logits' = [r \in Runs |-> StackOutput(s_logits[r], res[r].out)]
    /\ UNCHANGED <<s_pc, scanArgs, s_params, s_params_trajec, s_activations>>
    /\ UNCHANGED otherThanScan

\* both scans have consumed the arrays
ScanReturn ==
    /\ s_pc = "run"
    /\ NumTrials >= 1
    /\ Len(s_logits["A"]) = NumTrials
    /\ Len(s_params_trajec["A"]) = NumTrials
    /\ s_pc' = "done"
    /\ UNCHANGED <<scanArgs, s_params, s_params_trajec, s_activations, s_weights, s_logits>>
    /\ UNCHANGED otherThanScan

Init == InitScan("reward") /\ UpdIdle /\ EvalIdle /\ FlyIdle

Next ==
    \/ SimulateStep
    \/ SimulateAbort
    \/ SimulateRaise
    \/ InsilicoStep
    \/ InsilicoRaise
    \/ ScanReturn

Spec == Init /\ [][Next]_vars

InitPad == InitScan("padding") /\ UpdIdle /\ EvalIdle /\ FlyIdle

SpecPad == InitPad /\ [][Next]_vars

(***************************************************************************)
(* model.py evaluate: one experiment's data, the mask, and two runs of     *)
(* simulate over the same data.                                            *)
(***************************************************************************)
\* jax.lax.scan(step, initial_params, (xs, rewards, expected_rewards, trial_lengths))
\* from trial i on, with the outputs stacked so far
RECURSIVE scan_from(_, _, _, _, _, _, _, _, _)
scan_from(carry, coeffs, xs, rewards, expected_rewards, trial_lengths, i, params_trajec, activations) ==
    IF i > Len(xs) THEN <<params_trajec, activations>>
    ELSE LET stimulus == Stimulus(xs, rewards, expected_rewards, trial_lengths, i)
             res == model_network_step(stimulus.x, carry, coeffs, stimulus.reward,
                                       stimulus.expected_reward, stimulus.trial_length)
         IN  scan_from(res.carry, coeffs, xs, rewards, expected_rewards, trial_lengths,
                       i + 1, StackOutput(params_trajec, res.out[1]),
                       StackOutput(activations, res.out[2]))

\* simulate returns params_trajec, activations
simulate(initial_params, coeffs, xs, rewards, expected_rewards, trial_lengths) ==
    scan_from(initial_params, coeffs, xs, rewards, expected_rewards, trial_lengths,
              1, <<>>, <<>>)

\* params_trajec[0][0]: the layer-0 weights of every trial
layer0_weights(params_trajec) ==
    Arr([t \in 1..Len(params_trajec) |-> params_trajec[t][1][1]])

\* jnp.squeeze(activations[-1]): the last layer's single unit, per trial and position
squeeze_last(activations) ==
    Arr([t \in 1..Len(activations) |->
           LET last == activations[t][Len(activations[t])]
           IN  Arr([p \in 1..Len(last) |-> last[p][1]])])

\* jnp.multiply(logits, logits_mask), elementwise
multiply(logits, mask) ==
    Arr([t \in 1..Len(logits) |->
           Arr([p \in 1..Len(logits[t]) |-> FMul(logits[t][p], mask[t][p])])])

\* jnp.sum(jnp.logical_not(jnp.isnan(row)))
count_not_nan(row) == Cardinality({p \in 1..Len(row) : row[p] # NaN})

\* logits_mask = ones; logits_mask[j][length:] = 0
ones_until(length, n) == Arr([p \in 1..n |-> IF p <= length THEN 1 ELSE 0])

\* one run of evaluate: simulate, then the layer-0 trajectory and the masked logits
evaluate_run(params, coeffs, xs, rewards, expected_rewards, trial_lengths, mask) ==
    LET res == simulate(params, coeffs, xs, rewards, expected_rewards, trial_lengths)
    IN  [weight_trajec |-> layer0_weights(res[1]),
         logits |-> multiply(squeeze_last(res[2]), mask)]

\* what the data loader leaves at the padded positions of xs
EvalPads == {NaNVec, <<0, 0>>}

\* a row of decisions: 0 until the commit, 1 at the commit, NaN after it
DecisionRow(len) ==
    Arr([p \in 1..MaxLen |-> IF p < len THEN 0 ELSE IF p = len THEN 1 ELSE NaN])

\* the state when data_loader.generate_experiments_data has returned
InitEval ==
    /\ UpdIdle
    /\ ScanIdle
    /\ FlyIdle
    /\ e_pc = "loaded"
    /\ \E nl \in 1..MaxLayers : e_params = initialize_params(0, LayerSizes(2, nl, 1))
    /\ e_generation_coeff \in LearningCoeffSet
    /\ e_plasticity_coeff \in ScanCoeffSet
    /\ \E n \in 1..MaxTrials, pad \in EvalPads :
         \E lens \in [1..n -> TrialLengths], odors \in [1..n -> OdorInputs],
            rs \in [1..n -> RewardVals] :
           /\ e_xs = Arr([t \in 1..n |-> Window(lens[t], odors[t], pad)])
           /\ e_decisions = Arr([t \in 1..n |-> DecisionRow(lens[t])])
           /\ e_rewards = Arr(rs)
           /\ e_expected_rewards = Arr([t \in 1..n |-> ExpectedRewardOf(rs, t)])
    /\ e_trial_lengths = <<>>
    /\ e_logits_mask = <<>>
    /\ e_logits = <<>>
    /\ e_weight_trajec = <<>>
    /\ e_model_logits = <<>>
    /\ e_model_weight_trajec = <<>>

\* trial_lengths and logits_mask from the NaN padding of decisions
EvalMask ==
    /\ e_pc = "loaded"
    /\ e_trial_lengths' = Arr([j \in 1..Len(e_decisions) |-> count_not_nan(e_decisions[j])])
    /\ e_logits_mask' = Arr([j \in 1..Len(e_decisions) |->
                               ones_until(e_trial_lengths'[j], Len(e_decisions[j]))])
    /\ e_pc' = "masked"
    /\ UNCHANGED <<evalArgs, e_logits, e_weight_trajec, e_model_logits, e_model_weight_trajec>>
    /\ UNCHANGED otherThanEval

\* simulate with generation_coeff
EvalGenerationRun ==
    /\ e_pc = "masked"
    /\ CarryKeepsStructure(e_params)
    /\ LET res == evaluate_run(e_params, e_generation_coeff, e_xs, e_rewards,
                               e_expected_rewards, e_trial_lengths, e_logits_mask)
       IN  /\ e_logits' = res.logits
           /\ e_weight_trajec' = res.weight_trajec
    /\ e_pc' = "generated"
    /\ UNCHANGED <<evalArgs, e_trial_lengths, e_logits_mask, e_model_logits, e_model_weight_trajec>>
    /\ UNCHANGED otherThanEval

\* the scan of the first simulate refuses the changed carry
EvalAbort ==
    /\ e_pc = "masked"
    /\ ~CarryKeepsStructure(e_params)
    /\ e_pc' = "aborted"
    /\ UNCHANGED <<evalArgs, e_trial_lengths, e_logits_mask, e_logits, e_weight_trajec,
                   e_model_logits, e_model_weight_trajec>>
    /\ UNCHANGED otherThanEval

\* simulate with plasticity_coeff, and return
EvalModelRun ==
    /\ e_pc = "generated"
    /\ LET res == evaluate_run(e_params, e_plasticity_coeff, e_xs, e_rewards,
                               e_expected_rewards, e_trial_lengths, e_logits_mask)
       IN  /\ e_model_logits' = res.logits
           /\ e_model_weight_trajec' = res.weight_trajec
    /\ e_pc' = "done"
    /\ UNCHANGED <<evalArgs, e_trial_lengths, e_logits_mask, e_logits, e_weight_trajec>>
    /\ UNCHANGED otherThanEval

NextEval == EvalMask \/ EvalGenerationRun \/ EvalAbort \/ EvalModelRun

SpecEval == InitEval /\ [][NextEval]_vars

(***************************************************************************)
(* network.py simulate_fly_experiment and simulate_fly_trial.  A key is    *)
(* the path of split indices from the root key; a Bernoulli draw is a      *)
(* choice among the outcomes its probability allows.                       *)
(***************************************************************************)
\* the default of the argument moving_avg_window
moving_avg_window == 10

\* the windows of the model: a short one, which the trials fill, and the default
WindowSizes == {2, moving_avg_window}

\* jax.random.split(key): the two children of key
split(key) == <<Append(key, 0), Append(key, 1)>>

\* a key handed to split, or to a draw (bernoulli, sample_inputs)
SplitOf(key) == [key |-> key, use |-> "split"]

DrawWith(key) == [key |-> key, use |-> "draw"]

\* the outcomes of bernoulli(key, p), p in percent
bernoulli(p) == IF p = 0 THEN {0} ELSE IF p = 100 THEN {1} ELSE {0, 1}

\* the draw is dropped: the pool is left as it is
logical_or_pool_only(sampled_rewards, rewards_in_arena) == rewards_in_arena

\* the pool is overwritten by the draw
logical_or_sampled_only(sampled_rewards, rewards_in_arena) == sampled_rewards

\* np.logical_or(sampled_rewards, rewards_in_arena)
logical_or(sampled_rewards, rewards_in_arena) ==
    Arr([o \in 1..Len(rewards_in_arena) |->
           IF sampled_rewards[o] = 1 \/ rewards_in_arena[o] = 1 THEN 1 ELSE 0])

\* every entry of the pool is cleared
clear_pool(rewards_in_arena, odor) == Zeros(Len(rewards_in_arena))

\* rewards_in_arena[odor] = 0
clear_entry(rewards_in_arena, odor) == [rewards_in_arena EXCEPT ![odor + 1] = 0]

\* np.mean(r_history), as the fraction sum / len
mean(r_history) == [num |-> FSum(r_history), den |-> Len(r_history)]

\* a deque without maxlen: nothing is evicted
appendleft_unbounded(r_history, reward) == <<reward>> \o r_history

\* r_history.appendleft(reward) on a deque with maxlen = len(r_history)
appendleft(r_history, reward) == <<reward>> \o SubSeq(r_history, 1, Len(r_history) - 1)

\* inputs.sample_inputs(odor_mus, odor_sigmas, odor, subkey): the mean input of the odor
sample_inputs(odor) == IF odor = 0 THEN <<1, 0>> ELSE <<0, 1>>

\* weight_update(x, weights, ..., reward, expected_reward) with the weights and
\* the reward term in units of 1 / len(r_history): the rule is linear in them
fly_weight_update(x, weights, coeffs, reward, expected_reward) ==
    weight_update(x, weights, coeffs, expected_reward.den * reward, expected_reward.num)

\* block and trial (from 1) of the i-th trial of the experiment
BlockOf(i) == ((i - 1) \div f_trials_per_block) + 1

TrialOf(i) == ((i - 1) % f_trials_per_block) + 1

\* only the first block is run
NumFlyTrials_first_block == f_trials_per_block

NumFlyTrials == Len(f_reward_ratios) * f_trials_per_block

\* create_nested_list(num_blocks, trials_per_block), filled in trial order
create_nested_list(num_blocks) == Arr([b \in 1..num_blocks |-> <<>>])

SetEntry(nested, block, value) == [nested EXCEPT ![block] = Append(@, value)]

\* the fly learns by the Hebbian reward rule
FlyCoeffSet == {HebbCoeffs}

RewardRatioLists == {<< <<100, 0>> >>, << <<100, 0>>, <<0, 50>> >>}

InitFly ==
    /\ UpdIdle
    /\ ScanIdle
    /\ EvalIdle
    /\ f_pc = "experiment"
    /\ f_reward_ratios \in RewardRatioLists
    /\ f_trials_per_block \in {n \in 1..MaxTrials : Len(f_reward_ratios) * n <= MaxFlyTrials}
    /\ f_moving_avg_window \in WindowSizes
    /\ f_coeffs \in FlyCoeffSet
    /\ f_key = <<>>
    /\ f_weights = <<Zeros(1), Zeros(1)>>
    /\ f_rewards_in_arena = Zeros(2)
    /\ f_r_history = Zeros(f_moving_avg_window)
    /\ f_done = 0
    /\ f_expected_reward = <<>>
    /\ f_input_xs = <<>>
    /\ f_trial_odors = <<>>
    /\ f_decisions = <<>>
    /\ f_xs = create_nested_list(Len(f_reward_ratios))
    /\ f_odors = create_nested_list(Len(f_reward_ratios))
    /\ f_sampled_ys = create_nested_list(Len(f_reward_ratios))
    /\ f_rewards = create_nested_list(Len(f_reward_ratios))
    /\ f_expected_rewards = create_nested_list(Len(f_reward_ratios))
    /\ f_sampled_rewards = create_nested_list(Len(f_reward_ratios))
    /\ f_key_uses = <<>>

\* top of the trial loop: the pool is replenished at the block's ratio, then
\* simulate_fly_trial is entered
FlyStartTrial ==
    /\ f_pc = "experiment"
    /\ f_done < NumFlyTrials
    /\ LET block == BlockOf(f_done + 1)
           r_ratio == f_reward_ratios[block]
           key1 == split(f_key)[1]
           key2 == split(key1)[1]
       IN  \E s0 \in bernoulli(r_ratio[1]), s1 \in bernoulli(r_ratio[2]) :
             LET sampled_rewards == <<s0, s1>>
             IN  /\ f_rewards_in_arena' = logical_or(sampled_rewards, f_rewards_in_arena)
                 /\ f_sampled_rewards' = SetEntry(f_sampled_rewards, block, sampled_rewards)
                 /\ f_key' = key2
                 /\ f_key_uses' = f_key_uses \o
                       <<SplitOf(f_key), DrawWith(key1), SplitOf(key1)>>
    /\ f_expected_reward' = mean(f_r_history)
    /\ f_input_xs' = <<>>
    /\ f_trial_odors' = <<>>
    /\ f_decisions' = <<>>
    /\ f_pc' = "trial"
    /\ UNCHANGED <<flyArgs, f_weights, f_r_history, f_done, flyRecords>>
    /\ UNCHANGED otherThanFly

\* one iteration of the while loop with sampled_output = 0
FlyTimestep ==
    /\ f_pc = "trial"
    /\ Len(f_decisions) + 1 < MaxLen
    /\ LET keys1 == split(f_key)
           keys2 == split(keys1[1])
       IN  \E odor \in bernoulli(50) :
             /\ f_trial_odors' = Append(f_trial_odors, odor)
             /\ f_input_xs' = Append(f_input_xs, sample_inputs(odor))
             /\ f_decisions' = Append(f_decisions, 0)
             /\ f_key' = keys2[1]
             /\ f_key_uses' = f_key_uses \o
                   <<SplitOf(f_key), DrawWith(keys1[1]), DrawWith(keys1[2]),
                     SplitOf(keys1[1]), DrawWith(keys2[2])>>
    /\ UNCHANGED <<f_pc, flyArgs, f_weights, f_rewards_in_arena, f_r_history, f_done,
                   f_expected_reward, flyRecords, f_sampled_rewards>>
    /\ UNCHANGED otherThanFly

\* the iteration with sampled_output = 1: the commit, the return of
\* simulate_fly_trial and the recording of trial_data
FlyCommit ==
    /\ f_pc = "trial"
    /\ LET keys1 == split(f_key)
           keys2 == split(keys1[1])
           block == BlockOf(f_done + 1)
       IN  \E odor \in bernoulli(50) :
             LET x == sample_inputs(odor)
                 reward == f_rewards_in_arena[odor + 1]
                 dw == fly_weight_update(x, f_weights, f_coeffs, reward, f_expected_reward)
             IN  /\ f_r_history' = appendleft(f_r_history, reward)
                 /\ f_rewards_in_arena' = clear_entry(f_rewards_in_arena, odor)
                 /\ f_weights' = MatAdd(f_weights, dw)
                 /\ f_xs' = SetEntry(f_xs, block, Append(f_input_xs, x))
                 /\ f_odors' = SetEntry(f_odors, block, Append(f_trial_odors, odor))
                 /\ f_sampled_ys' = SetEntry(f_sampled_ys, block, Append(f_decisions, 1))
                 /\ f_rewards' = SetEntry(f_rewards, block, reward)
                 /\ f_expected_rewards' = SetEntry(f_expected_rewards, block, f_expected_reward)
                 /\ f_key' = keys2[1]
                 /\ f_key_uses' = f_key_uses \o
                       <<SplitOf(f_key), DrawWith(keys1[1]), DrawWith(keys1[2]),
                         SplitOf(keys1[1]), DrawWith(keys2[2])>>
    /\ f_done' = f_done + 1
    /\ f_expected_reward' = <<>>
    /\ f_input_xs' = <<>>
    /\ f_trial_odors' = <<>>
    /\ f_decisions' = <<>>
    /\ f_pc' = "experiment"
    /\ UNCHANGED <<flyArgs, f_sampled_rewards>>
    /\ UNCHANGED otherThanFly

\* return xs, odors, sampled_ys, rewards, expected_rewards
FlyReturn ==
    /\ f_pc = "experiment"
    /\ f_done = NumFlyTrials
    /\ f_pc' = "done"
    /\ UNCHANGED <<flyArgs, f_key, f_weights, f_rewards_in_arena, f_r_history, f_done,
                   flyTrial, flyRecords, f_sampled_rewards, f_key_uses>>
    /\ UNCHANGED otherThanFly

NextFly == FlyStartTrial \/ FlyTimestep \/ FlyCommit \/ FlyReturn

SpecFly == InitFly /\ [][NextFly]_vars

\* the experiment is a sequential program, so an enabled step is taken; the
\* fairness of the commit, which is enabled throughout a trial, is the proviso
\* that the while loop of every trial eventually draws sampled_output = 1
FairFly ==
    /\ WF_vars(FlyStartTrial)
    /\ WF_vars(FlyCommit)
    /\ WF_vars(FlyReturn)

\* the experiments with the short reward window that have one block or one
\* trial to a block
InitFlyLive ==
    /\ InitFly
    /\ f_moving_avg_window < moving_avg_window
    /\ Len(f_reward_ratios) = 1 \/ f_trials_per_block = 1

SpecFlyLive == InitFlyLive /\ [][NextFly]_vars /\ FairFly

(***************************************************************************)
(* Properties of update_params and weight_update (SpecUpdate).             *)
(***************************************************************************)
\* C4 (as stated): update_params returns as many layers as it was given, and
\* only the layer-0 weight matrix may differ from the input.
C4_OnlyLayer0WeightsChange ==
    u_new_params # <<>> =>
        /\ Len(u_new_params) = Len(u_params)
        /\ \A l \in 1..Len(u_params) :
             /\ u_new_params[l][2] = u_params[l][2]
             /\ l > 1 => u_new_params[l][1] = u_params[l][1]

\* the same with at most two layers, where it holds
C4_UpToTwoLayers == Len(u_params) <= 2 => C4_OnlyLayer0WeightsChange

\* C5: both updates compute, for every synapse (i, j), the rule applied to
\* (x[i], reward - expected_reward, W[i][j], coeffs); the delta has the shape of W.
C5_RulePerSynapse ==
    LET W == u_params[1][1]
        rule(i, j) == plasticity_func(u_x[i], u_reward - u_expected, W[i][j], u_coeffs)
    IN  /\ u_dw # <<>> =>
              /\ Rows(u_dw) = Rows(W)
              /\ \A i \in 1..Rows(W) : Len(u_dw[i]) = Cols(W)
              /\ \A i \in 1..Rows(W), j \in 1..Cols(W) : u_dw[i][j] = rule(i, j)
        /\ u_new_params # <<>> =>
              /\ Rows(u_new_params[1][1]) = Rows(W)
              /\ \A i \in 1..Rows(W) : Len(u_new_params[1][1][i]) = Cols(W)
              /\ \A i \in 1..Rows(W), j \in 1..Cols(W) :
                   u_new_params[1][1][i][j] = W[i][j] + rule(i, j)

C5_Witness ==
    /\ u_dw # <<>>
    /\ u_new_params # <<>>
    /\ Shape(u_dw) = <<2, 2>>
    /\ u_dw[1][2] # u_dw[2][1]
    /\ u_dw[1][1] # u_dw[2][2]
    /\ u_new_params[1][1] = MatAdd(u_params[1][1], u_dw)

\* C11 (SpecUpdate): with a rule that returns a scalar per synapse, the delta
\* of weight_update and of update_params has exactly the shape of W, for every
\* shape of W, so neither shape assertion fails.
C11_ScalarRuleKeepsShape ==
    u_rule_shape = <<>> =>
      LET W == u_params[1][1]
      IN  /\ u_pc \notin {"update_params raised AssertionError",
                          "weight_update raised AssertionError"}
          /\ weight_update_dw_shape(Shape(W), u_rule_shape) = Shape(W)
          /\ update_params_dw_shape(Shape(W), u_rule_shape) = Shape(W)
          /\ u_dw # <<>> =>
                (Rows(u_dw) = Rows(W) /\ \A i \in 1..Rows(W) : Len(u_dw[i]) = Cols(W))
          /\ u_new_params # <<>> =>
                (/\ Rows(u_new_params[1][1]) = Rows(W)
                 /\ \A i \in 1..Rows(W) : Len(u_new_params[1][1][i]) = Cols(W))

C11_Witness ==
    /\ u_rule_shape = <<>>
    /\ Rows(u_params[1][1]) # Cols(u_params[1][1])
    /\ u_pc \in {"update_params", "weight_update"}
    /\ u_dw # <<>>
    /\ u_new_params # <<>>
    /\ Shape(u_dw) = Shape(u_params[1][1])

(***************************************************************************)
(* Properties of the scans (Spec: run B changes one reward; SpecPad: run B *)
(* changes the padding of one trial).                                      *)
(***************************************************************************)
\* the trials whose reward differs between the runs (at most one)
PerturbedTrials == {k \in 1..NumTrials : s_rewards["A"][k] # s_rewards["B"][k]}

\* C1: changing only the reward of trial k changes no output of a trial before
\* k: trajectory entries, activations and in-silico logits of trials < k agree.
C1_NoEffectBeforePerturbedTrial ==
    s_pc \in {"run", "done"} =>
      \A k \in PerturbedTrials : \A j \in 1..(k - 1) :
        /\ s_xs["A"] = s_xs["B"]
        /\ s_params_trajec["A"][j] = s_params_trajec["B"][j]
        /\ s_activations["A"][j] = s_activations["B"][j]
        /\ j <= Len(s_logits["A"]) => s_logits["A"][j] = s_logits["B"][j]

C1_Witness ==
    /\ s_pc = "done"
    /\ \E k \in PerturbedTrials :
         /\ k >= 2
         /\ s_params_trajec["A"][k] # s_params_trajec["B"][k]
         /\ s_weights["A"] # s_weights["B"]

\* C6: with zero-plasticity coefficients and a single layer of sizes [2, 1]
\* the weights never change: every trajectory entry, the carried parameters
\* and the in-silico weights equal the initial ones.
C6_ZeroPlasticityKeepsWeights ==
    (s_pc \in {"run", "done"} /\ s_coeffs = ZeroCoeffs /\ Len(s_initial_params) = 1) =>
      \A r \in Runs :
        /\ s_params[r] = s_initial_params
        /\ s_weights[r] = s_initial_params[1][1]
        /\ \A k \in 1..Len(s_params_trajec[r]) : s_params_trajec[r][k] = s_initial_params

C6_Witness ==
    /\ s_pc = "done"
    /\ s_coeffs = ZeroCoeffs
    /\ Len(s_initial_params) = 1
    /\ Shape(s_initial_params[1][1]) = <<2, 1>>
    /\ NumTrials = MaxTrials
    /\ \E k \in 1..NumTrials :
         s_rewards["A"][k] # s_expected_rewards[k] /\ s_trial_lengths[k] < MaxLen
    /\ s_weights["A"] = s_initial_params[1][1]

\* C7: one trajectory entry per trial, in trial order; entry k is the state
\* after trial k's update, which is the carry given to trial k + 1; the last
\* entry is the terminal carry; the initial parameters are no entry.
C7_TrajectoryIsCarryAfterEachTrial ==
    s_pc \in {"run", "done"} =>
      \A r \in Runs :
        /\ Len(s_params_trajec[r]) = NumTrials
        /\ Len(s_activations[r]) = NumTrials
        /\ NumTrials >= 1 => s_params_trajec[r][NumTrials] = s_params[r]
        /\ \A k \in 1..NumTrials :
             LET carried == IF k = 1 THEN s_initial_params ELSE s_params_trajec[r][k - 1]
                 decision == Arr([l \in 1..Len(s_activations[r][k]) |->
                                   s_activations[r][k][l][s_trial_lengths[k]]])
             IN  /\ s_activations[r][k] = vmap_network_forward(carried, s_xs[r][k])
                 /\ s_params_trajec[r][k] =
                      update_params(carried, decision, s_coeffs, s_rewards[r][k],
                                    s_expected_rewards[k])

C7_Witness ==
    /\ s_pc = "done"
    /\ NumTrials = MaxTrials
    /\ Len(s_params_trajec["A"]) = MaxTrials
    /\ s_params_trajec["A"][1] # s_initial_params
    /\ s_params_trajec["A"][2] # s_params_trajec["A"][1]
    /\ s_params_trajec["A"][MaxTrials] = s_params["A"]

\* C8 (SpecPad): the update uses the decision timestep only: changing the
\* inputs at padded positions changes neither the carried weights nor any
\* trajectory entry.
C8_PaddingNeverReachesWeights ==
    (s_pc \in {"run", "done"} /\ s_rewards["A"] = s_rewards["B"]) =>
      /\ s_params["A"] = s_params["B"]
      /\ s_params_trajec["A"] = s_params_trajec["B"]
      /\ s_weights["A"] = s_weights["B"]

C8_Witness ==
    /\ s_pc = "done"
    /\ s_twin = "padding"
    /\ s_coeffs # ZeroCoeffs
    /\ s_xs["A"][1] # s_xs["B"][1]
    /\ s_activations["A"][1] # s_activations["B"][1]
    /\ s_logits["A"][1] # s_logits["B"][1]
    /\ NumTrials >= 2
    /\ s_params_trajec["A"][1] # s_initial_params
    /\ s_params_trajec["A"] = s_params_trajec["B"]

\* C3 (as stated, SpecEval): after masking, both returned logit arrays are zero
\* at every position beyond the trial's true length, whatever the raw output
\* there, NaN included.
C3_MaskedLogitsZeroBeyondLength ==
    e_pc = "done" =>
      \A t \in 1..Len(e_xs) : \A p \in 1..MaxLen :
        p > e_trial_lengths[t] => (e_logits[t][p] = 0 /\ e_model_logits[t][p] = 0)

\* the odor committed in the i-th trial of the fly experiment
CommittedOdor(i) ==
    LET odors == f_odors[BlockOf(i)][TrialOf(i)] IN odors[Len(odors)]

\* C2 (as stated, SpecFly): a reward consumed in a trial cannot be drawn again
\* for that odor by the next trial of the same block.
C2_NoSecondRewardWithinBlock ==
    \A i \in 1..(f_done - 1) :
      (/\ BlockOf(i) = BlockOf(i + 1)
       /\ f_rewards[BlockOf(i)][TrialOf(i)] = 1
       /\ CommittedOdor(i) = CommittedOdor(i + 1))
      => f_rewards[BlockOf(i + 1)][TrialOf(i + 1)] = 0

\* C2 (amended): a commit leaves the pool entry of the committed odor at zero,
\* and the entry is replenished only by the Bernoulli draw made before each
\* trial: a trial that commits to the odor of the trial before it is rewarded
\* exactly when the draw made before it succeeded for that odor.
C2_RewardAgainOnlyIfDrawnBeforeTrial ==
    /\ (f_pc \in {"experiment", "done"} /\ f_done >= 1) =>
          f_rewards_in_arena[CommittedOdor(f_done) + 1] = 0
    /\ \A i \in 1..(f_done - 1) :
          CommittedOdor(i) = CommittedOdor(i + 1) =>
            f_rewards[BlockOf(i + 1)][TrialOf(i + 1)] =
              f_sampled_rewards[BlockOf(i + 1)][TrialOf(i + 1)][CommittedOdor(i) + 1]

C2_Witness ==
    /\ f_pc = "done"
    /\ \E i \in 1..(f_done - 1) :
         /\ BlockOf(i) = BlockOf(i + 1)
         /\ CommittedOdor(i) = CommittedOdor(i + 1)
         /\ f_rewards[BlockOf(i)][TrialOf(i)] = 1
         /\ f_rewards[BlockOf(i + 1)][TrialOf(i + 1)] = 1
    /\ \E i \in 1..(f_done - 1) :
         /\ CommittedOdor(i) = CommittedOdor(i + 1)
         /\ f_rewards[BlockOf(i)][TrialOf(i)] = 1
         /\ f_rewards[BlockOf(i + 1)][TrialOf(i + 1)] = 0

\* the reward and the expected reward recorded for the i-th trial
FlyReward(i) == f_rewards[BlockOf(i)][TrialOf(i)]

FlyExpectedReward(i) == f_expected_rewards[BlockOf(i)][TrialOf(i)]

\* the rewards of the moving_avg_window trials before trial i, latest first,
\* zero for the trials that do not exist
RewardsBefore(i) ==
    Arr([k \in 1..f_moving_avg_window |-> IF i - k >= 1 THEN FlyReward(i - k) ELSE 0])

\* C12 (SpecFly): the reward history always holds moving_avg_window entries,
\* the rewards of the latest trials first and zero for trials that do not
\* exist; the expected reward of trial t is the sum of the rewards of the
\* moving_avg_window trials before t divided by moving_avg_window.
C12_HistoryIsWindowOfPastRewards ==
    f_pc # "idle" =>
      /\ Len(f_r_history) = f_moving_avg_window
      /\ f_r_history = RewardsBefore(f_done + 1)
      /\ f_pc = "trial" =>
            f_expected_reward = [num |-> FSum(RewardsBefore(f_done + 1)),
                                 den |-> f_moving_avg_window]
      /\ \A i \in 1..f_done :
            FlyExpectedReward(i) = [num |-> FSum(RewardsBefore(i)),
                                    den |-> f_moving_avg_window]

C12_Witness ==
    /\ f_pc = "done"
    /\ f_moving_avg_window < f_done
    /\ FlyReward(1) = 1
    /\ f_r_history[f_moving_avg_window] = 0
    /\ \E i \in 1..f_done : FlyExpectedReward(i).num = f_moving_avg_window
    /\ \E i \in 1..f_done : FlyExpectedReward(i).num = 1

\* C13 (as stated, SpecFly): no key is consumed twice: no key is given to two
\* draws, and no key given to a draw is split afterwards.
C13_NoKeyConsumedTwice ==
    \A i \in 1..Len(f_key_uses) : \A j \in (i + 1)..Len(f_key_uses) :
      (f_key_uses[i].key = f_key_uses[j].key) => f_key_uses[i].use # "draw"

\* C14 (Spec): with a rule whose result is not a scalar the delta's shape
\* differs from the shape of W and both updates raise their assertion: no
\* trial is run, no trajectory entry, activation or logit is produced and the
\* weights stay the initial ones, also where W + dw could be broadcast.
C14_ShapeMismatchAborts ==
    s_rule_shape # <<>> =>
      /\ ~same_shape(update_params_dw_shape(Shape(s_initial_params[1][1]), s_rule_shape),
                     Shape(s_initial_params[1][1]))
      /\ s_pc \in {"run", "simulate raised AssertionError",
                   "simulate_insilico_experiment raised AssertionError"}
      /\ NumTrials = 0
      /\ \A r \in Runs :
           /\ s_params_trajec[r] = <<>>
           /\ s_activations[r] = <<>>
           /\ s_logits[r] = <<>>
           /\ s_params[r] = s_initial_params
           /\ s_weights[r] = s_initial_params[1][1]

C14_Witness ==
    /\ s_rule_shape # <<>>
    /\ s_pc = "simulate raised AssertionError"
    /\ broadcastable(update_params_dw_shape(Shape(s_initial_params[1][1]), s_rule_shape),
                     Shape(s_initial_params[1][1]))
    /\ s_params_trajec["A"] = <<>>

\* the step completes a trial of the fly experiment (the committing timestep)
FlyCommits == f_pc = "trial" /\ f_done' = f_done + 1

\* the odor committed by a step with FlyCommits
NewCommittedOdor ==
    LET odors == f_odors'[BlockOf(f_done + 1)][TrialOf(f_done + 1)] IN odors[Len(odors)]

\* C15 (SpecFly): a commit to odor o records as reward the pool entry of o
\* before the commit, sets that entry to zero and leaves the other entry;
\* a timestep without commit changes neither pool, reward history nor weights.
C15_CommitFrame ==
    [][f_pc = "trial" =>
         IF FlyCommits
         THEN LET o == NewCommittedOdor
              IN  /\ f_rewards'[BlockOf(f_done + 1)][TrialOf(f_done + 1)] =
                       f_rewards_in_arena[o + 1]
                  /\ f_rewards_in_arena'[o + 1] = 0
                  /\ f_rewards_in_arena'[2 - o] = f_rewards_in_arena[2 - o]
         ELSE UNCHANGED <<f_rewards_in_arena, f_r_history, f_weights>>]_vars

C15_Witness ==
    /\ f_pc = "experiment"
    /\ f_done >= 1
    /\ Len(f_sampled_ys[BlockOf(f_done)][TrialOf(f_done)]) >= 2
    /\ FlyReward(f_done) = 1
    /\ f_rewards_in_arena[CommittedOdor(f_done) + 1] = 0
    /\ f_rewards_in_arena[2 - CommittedOdor(f_done)] = 1

\* every recorded decision sequence is zero or more 0 followed by one final 1
DecisionsEndWithCommit ==
    \A i \in 1..f_done :
      LET ys == f_sampled_ys[BlockOf(i)][TrialOf(i)]
      IN  /\ Len(ys) >= 1
          /\ ys[Len(ys)] = 1
          /\ \A t \in 1..(Len(ys) - 1) : ys[t] = 0

\* the records are filled block by block, trials_per_block trials to a block
RecordsInBlockOrder ==
    \A b \in 1..Len(f_reward_ratios) :
      /\ Len(f_sampled_ys[b]) =
           (IF f_done <= (b - 1) * f_trials_per_block THEN 0
            ELSE Min(f_trials_per_block, f_done - (b - 1) * f_trials_per_block))
      /\ Len(f_rewards[b]) = Len(f_sampled_ys[b])
      /\ Len(f_xs[b]) = Len(f_sampled_ys[b])

\* the weights change by the update computed from the stimulus of the
\* committing timestep, and by nothing else
OneUpdatePerTrial ==
    IF FlyCommits
    THEN LET b == BlockOf(f_done + 1)
             t == TrialOf(f_done + 1)
             xs == f_xs'[b][t]
         IN  /\ Len(xs) = Len(f_sampled_ys'[b][t])
             /\ xs[Len(xs)] = sample_inputs(NewCommittedOdor)
             /\ f_weights' = MatAdd(f_weights,
                   fly_weight_update(xs[Len(xs)], f_weights, f_coeffs,
                                     f_rewards'[b][t], f_expected_rewards'[b][t]))
    ELSE f_weights' = f_weights

ExperimentComplete ==
    /\ f_pc = "done"
    /\ f_done = Len(f_reward_ratios) * f_trials_per_block
    /\ \A b \in 1..Len(f_reward_ratios) : Len(f_sampled_ys[b]) = f_trials_per_block

\* C16 (SpecFlyLive): every completed trial has a decision sequence of zero or
\* more 0 and one final 1; the weights are updated once per trial, at the
\* commit, with the stimulus of the committing timestep; and when every trial
\* eventually commits the experiment completes len(reward_ratios) *
\* trials_per_block trials, in block order.
C16_TrialsCommitOnceAndExperimentCompletes ==
    /\ [](f_pc # "idle" => DecisionsEndWithCommit /\ RecordsInBlockOrder)
    /\ [][OneUpdatePerTrial]_vars
    /\ [](f_pc = "done" => ExperimentComplete)
    /\ <>ExperimentComplete

C16_Witness ==
    /\ ExperimentComplete
    /\ Len(f_reward_ratios) = 2
    /\ Len(f_sampled_ys[1][1]) >= 2
    /\ Len(f_sampled_ys[2][1]) = 1
    /\ f_weights # <<Zeros(1), Zeros(1)>>

\* C17 (SpecFly): a pool entry that is 1 stays 1 through every step, the
\* replenishment of the next trial and of the next block included, except the
\* commit to that odor: the only transition from 1 to 0 is that commit.
C17_PoolEntryPersistsUntilCommit ==
    [][\A o \in 0..1 :
         (f_rewards_in_arena[o + 1] = 1 /\ f_rewards_in_arena'[o + 1] # 1) =>
           (FlyCommits /\ NewCommittedOdor = o /\ f_rewards_in_arena'[o + 1] = 0)]_vars

\* a reward of odor 0 left from the first block is in the pool of the first
\* trial of the second block, whose own draw for odor 0 failed
C17_Witness ==
    /\ f_pc = "trial"
    /\ f_done >= 1
    /\ BlockOf(f_done + 1) = 2
    /\ TrialOf(f_done + 1) = 1
    /\ CommittedOdor(f_done) = 1
    /\ f_sampled_rewards[2][1][1] = 0
    /\ f_rewards_in_arena[1] = 1

\* the parameters carried into trial k of run r
CarriedInto(r, k) == IF k = 1 THEN s_initial_params ELSE s_params_trajec[r][k - 1]

\* the two runs were given the same arrays for the trials before trial k
SameBefore(k) ==
    \A j \in 1..(k - 1) : s_xs["A"][j] = s_xs["B"][j] /\ s_rewards["A"][j] = s_rewards["B"][j]

\* C18 (Spec): the activations recorded for trial k are the forward pass with
\* the parameters carried into trial k, trajectory entry k - 1 or the initial
\* parameters; they do not depend on the reward of trial k: two runs that
\* differ in the reward of trial k only record the same activations for it.
C18_ActivationsUseParamsBeforeUpdate ==
    s_pc # "idle" =>
      /\ \A r \in Runs : \A k \in 1..Len(s_activations[r]) :
            s_activations[r][k] = vmap_network_forward(CarriedInto(r, k), s_xs[r][k])
      /\ \A k \in 1..Len(s_activations["A"]) :
            (SameBefore(k) /\ s_xs["A"][k] = s_xs["B"][k]) =>
               s_activations["A"][k] = s_activations["B"][k]

C18_Witness ==
    /\ s_pc = "done"
    /\ Len(s_activations["A"]) = 2
    /\ s_rewards["A"][1] # s_rewards["B"][1]
    /\ s_params_trajec["A"][1] # s_params_trajec["B"][1]
    /\ s_activations["A"][1] = s_activations["B"][1]
    /\ s_activations["A"][2] # s_activations["B"][2]

\* the network given to simulate has one layer, whose bias is zero
SingleLayerZeroBias ==
    /\ Len(s_initial_params) = 1
    /\ s_initial_params[1][2] = Zeros(Len(s_initial_params[1][2]))

\* C19 (Spec): for a single layer with zero bias, simulate and
\* simulate_insilico_experiment stay in step on the same arguments: after
\* every trial the carried layer-0 weights of simulate are the carried weights
\* of simulate_insilico_experiment, the logits of every trial are equal, and
\* the final weights are the layer-0 weights of the last trajectory entry.
C19_SingleLayerSimulatorsAgree ==
    (s_pc # "idle" /\ SingleLayerZeroBias) =>
      \A r \in Runs :
        /\ Len(s_logits[r]) = Len(s_params_trajec[r]) => s_weights[r] = s_params[r][1][1]
        /\ \A k \in 1..Len(s_logits[r]) :
              s_logits[r][k] = s_activations[r][k][Len(s_activations[r][k])]
        /\ Len(s_logits[r]) >= 1 =>
              s_weights[r] = s_params_trajec[r][Len(s_logits[r])][1][1]
        /\ s_pc = "done" =>
              s_weights[r] = s_params_trajec[r][Len(s_params_trajec[r])][1][1]

C19_Witness ==
    /\ s_pc = "done"
    /\ SingleLayerZeroBias
    /\ NumTrials = 2
    /\ s_trial_lengths[1] < MaxLen
    /\ s_weights["A"] # s_initial_params[1][1]
    /\ s_params_trajec["A"][1] # s_params_trajec["A"][2]
    /\ s_logits["A"][1] # s_logits["A"][2]

\* C10 (as stated): perturbing the reward of trial k changes the trajectory
\* entry and the activations of every later trial, whatever the rule.
C10_EveryLaterTrialChanges ==
    s_pc \in {"run", "done"} =>
      \A k \in PerturbedTrials : \A j \in (k + 1)..NumTrials :
        /\ s_params_trajec["A"][j] # s_params_trajec["B"][j]
        /\ s_activations["A"][j] # s_activations["B"][j]

\* C10 (amended): with the rule delta = x * reward_term (no dependence on the
\* weight) and the nonzero decision inputs of the model, perturbing the reward
\* of trial k changes the layer-0 weights of trajectory entries k..N.
C10_HebbianLaterEntriesChange ==
    (s_pc \in {"run", "done"} /\ s_coeffs = HebbCoeffs) =>
      \A k \in PerturbedTrials : \A j \in k..NumTrials :
        s_params_trajec["A"][j][1][1] # s_params_trajec["B"][j][1][1]

C10_Witness ==
    /\ s_pc = "done"
    /\ s_coeffs = HebbCoeffs
    /\ PerturbedTrials = {1}
    /\ NumTrials = MaxTrials
    /\ s_params_trajec["A"][MaxTrials][1][1] # s_params_trajec["B"][MaxTrials][1][1]
    /\ s_activations["A"][MaxTrials] = s_activations["B"][MaxTrials]

=============================================================================
